---- MODULE Spec2Model ----
(***************************************************************************)
(* p2pchat: the bootstrap coordinator (p2p.go), the chat room session      *)
(* (chat.go) and the UI event loop with its command handlers (ui.go).      *)
(***************************************************************************)
EXTENDS Integers, Sequences, FiniteSets, TLC

(***************************************************************************)
(* Bounds of the model.                                                    *)
(***************************************************************************)
\* largest number of bootstrap peers tried (dht.DefaultBootstrapPeers)
MaxBootPeers == 3

\* largest number of chat room sessions ever joined
MaxSessions == 3
\* largest number of slash commands dispatched by the event loop
MaxCmds == 2
\* largest number of pub/sub messages the network hands to subscriptions
MaxNet == 1
\* largest number of free-text lines the user submits
MaxTexts == 1
\* largest number of pub/sub messages in a run without commands
MaxInbound == 3
\* largest number of free-text lines in a run without commands
MaxOutbound == 3
\* largest number of characters of an input line
MaxLine == 5

VARIABLES
    \* ---- bootstrapDHT (p2p.go) ----
    bootN,                \* len(dht.DefaultBootstrapPeers)
    bootPc,               \* position of bootstrapDHT itself
    bpc,                  \* position of each g.Go goroutine
    bok,                  \* result of nodeHost.Connect per goroutine: TRUE = nil error
    breg,                 \* value loaded by a goroutine for its pending ++
    connectedBootPeers,
    totalBootPeers,
    gErr,                 \* errgroup's first non-nil error is set
    \* ---- main (main.go) ----
    discovery,            \* the -discovery flag, the strategy main has started, its
                          \* position, the calls it has made and the one that failed
    \* ---- ChatRoom sessions (chat.go) ----
    sessN,                \* sessions created so far: 1..sessN
    sess,                 \* per session: Host, selfID, topic, RoomName, Username
    joinArgs,             \* history: the arguments JoinChatRoom was called with
    ctxDone,              \* per session: cr.ctx is cancelled
    leftBy,               \* history: the handlers that called Leave() on the session
    subEnded,             \* per session: the subscription stream has ended
    subQ,                 \* per session: messages waiting in the subscription
    inClosed,             \* per session: number of close(cr.Incomming) calls
    rs,                   \* per session: position of ReadSub
    rsMsg,                \* per session: the decoded message ReadSub is handing over
    pm,                   \* per session: position of PubMessages
    pmMsg,                \* per session: the text / chatMessage PubMessages holds
    published,            \* history: per session, the chatMessages given to Publish
    netN,                 \* messages handed to subscriptions so far
    \* ---- UI (ui.go) ----
    active,               \* ui.ChatRoom, the embedded *ChatRoom
    uiPc,                 \* position of eventHandler
    uiSel,                \* the session whose channels the pending select / send uses
    uiMsg,                \* the text eventHandler is sending to Outgoing
    appStopped,           \* TerminalApp.Stop() was called
    closed,               \* ui.Close() has run
    textN,                \* free-text lines received so far
    delivered,            \* history: per session, messages the loop took from Incomming
    zeroRendered,         \* history: the loop rendered a zero chatMessage of a closed channel
    logsSeen,             \* history: log prefixes the loop took from Logs, with counts
    echoed,               \* history: texts rendered by printSelfMessage
    \* ---- handleCommand goroutines (ui.go) ----
    hN,                   \* commands dispatched so far: 1..hN
    hnd                   \* per handler: cmd, pc, captured and joined sessions

bootVars == <<bootN, bootPc, bpc, bok, breg, connectedBootPeers, totalBootPeers, gErr,
              discovery>>

sessVars == <<sessN, sess, joinArgs, ctxDone, leftBy, subEnded, subQ, inClosed,
              rs, rsMsg, pm, pmMsg, published, netN>>

uiVars == <<active, uiPc, uiSel, uiMsg, appStopped, closed, textN,
            delivered, zeroRendered, logsSeen, echoed>>

hVars == <<hN, hnd>>

chatVars == <<sessVars, uiVars, hVars>>

vars == <<bootVars, chatVars>>

(***************************************************************************)
(* Values                                                                  *)
(***************************************************************************)
\* peer IDs: the local host and one remote peer
Clients == {"self", "other"}

\* default fallback user and chat room names
defaultUsername == "anon"
defaultRoomName == "lobby"

SessIds == 1..MaxSessions
HandlerIds == 1..MaxCmds

\* -user / -room flags and JoinChatRoom arguments
NameArgs == {"", "lobby", "a"}

\* the slash commands the user types: cmdtype and cmdarg
Commands ==
    {<<"/room", "a">>, <<"/room", "b">>, <<"/room", "">>,
     <<"/user", "bob">>, <<"/user", "">>,
     <<"/quit", "">>, <<"/clear", "">>, <<"/nick", "">>}

\* the renames among them
RenameCommands == {<<"/user", "bob">>, <<"/user", "">>}

\* the room switches among them
RoomCommands == {<<"/room", "a">>, <<"/room", "b">>}

Texts == {"hi"}

\* the free-text lines of a run without commands
MoreTexts == {"hi", "yo"}

LogPrefixes == {"badcmd", "roomchange", "jumperr", "puberr", "suberr"}

\* what pub/sub hands to a subscription: the peer that forwarded it and the
\* payload, a JSON chatMessage (valid) with its senderId, or undecodable bytes
NetMessages ==
    {[ReceivedFrom |-> "other", Data |-> [valid |-> TRUE, senderId |-> "other"]],
     [ReceivedFrom |-> "self", Data |-> [valid |-> TRUE, senderId |-> "self"]],
     [ReceivedFrom |-> "other", Data |-> [valid |-> TRUE, senderId |-> "self"]],
     [ReceivedFrom |-> "other", Data |-> [valid |-> FALSE, senderId |-> ""]]}

NoSession == [Host |-> "", selfID |-> "", topic |-> "", RoomName |-> "", Username |-> ""]
NoArgs == [username |-> "", roomName |-> ""]
\* (handedAs and seq are history: cr.Username when the text was taken from
\* Outgoing, and the text's position among the lines the loop received)
NoChatMessage == [Message |-> "", SenderID |-> "", SenderName |-> "", handedAs |-> "",
                  seq |-> 0]
NoInMessage == [id |-> 0, SenderID |-> "", win |-> FALSE]
NoHandler == [cmdtype |-> "", cmdarg |-> "", pc |-> "idle", old |-> 0, new |-> 0,
              logTo |-> 0, swapped |-> FALSE, line |-> <<>>]

(***************************************************************************)
(* JoinChatRoom (chat.go)                                                  *)
(***************************************************************************)
\* fmt.Sprintf("p2p-room-%s", roomName)
TopicName(roomName) == "p2p-room-" \o roomName

\* a normalisation that never applies the fallback
OrDefaultKeepsEmpty(name, fallback) == name

\* if len(name) == 0 { name = fallback }
OrDefault(name, fallback) == IF Len(name) = 0 THEN fallback ELSE name

\* a join that ignores the names it is given
JoinChatRoomDefaults(p2p, username, roomName) ==
    [Host |-> p2p,
     selfID |-> p2p,
     topic |-> TopicName(roomName),
     RoomName |-> defaultRoomName,
     Username |-> defaultUsername]

\* the ChatRoom JoinChatRoom returns: the topic is joined with the roomName
\* as passed, the fallbacks are applied afterwards
JoinChatRoom(p2p, username, roomName) ==
    [Host |-> p2p,
     selfID |-> p2p,
     topic |-> TopicName(roomName),
     RoomName |-> OrDefault(roomName, defaultRoomName),
     Username |-> OrDefault(username, defaultUsername)]

\* p2p.PubSub.Join returns an error for a topic this host has joined and not closed
TopicJoined(p2p, topic) ==
    \E s \in 1..sessN : sess[s].Host = p2p /\ sess[s].topic = topic /\ leftBy[s] = {}

\* a successful JoinChatRoom: the new session with its channels, its context
\* and its two goroutines started
StartSession(s, p2p, username, roomName) ==
    /\ sessN' = s
    /\ sess' = [sess EXCEPT ![s] = JoinChatRoom(p2p, username, roomName)]
    /\ joinArgs' = [joinArgs EXCEPT ![s] = [username |-> username, roomName |-> roomName]]
    /\ rs' = [rs EXCEPT ![s] = "next"]
    /\ pm' = [pm EXCEPT ![s] = "select"]
    /\ UNCHANGED <<ctxDone, leftBy, subEnded, subQ, inClosed, rsMsg, pmMsg, published, netN>>

(***************************************************************************)
(* ReadSub (chat.go)                                                       *)
(***************************************************************************)
\* case <-cr.ctx.Done(): return
ReadSubCtxDone(s) ==
    /\ rs[s] = "next"
    /\ ctxDone[s]
    /\ rs' = [rs EXCEPT ![s] = "done"]
    /\ UNCHANGED <<sessN, sess, joinArgs, ctxDone, leftBy, subEnded, subQ, inClosed,
                   rsMsg, pm, pmMsg, published, netN, uiVars, hVars, bootVars>>

\* if msg.ReceivedFrom == cr.selfID { continue }
IsFromSelf(msg, selfID) == msg.ReceivedFrom = selfID

\* cr.subscription.Next returns a message: skipped when from self, reported
\* when json.Unmarshal fails, otherwise handed to cr.Incomming
ReadSubNext(s) ==
    /\ rs[s] = "next"
    /\ subQ[s] # <<>>
    /\ LET msg == Head(subQ[s]) IN
          /\ subQ' = [subQ EXCEPT ![s] = Tail(subQ[s])]
          /\ IF IsFromSelf(msg, sess[s].selfID)
               THEN UNCHANGED <<rs, rsMsg>>
               ELSE IF ~msg.Data.valid
                      THEN /\ rs' = [rs EXCEPT ![s] = "logUnmarshal"]
                           /\ UNCHANGED rsMsg
                      ELSE /\ rs' = [rs EXCEPT ![s] = "sendIncomming"]
                           /\ rsMsg' = [rsMsg EXCEPT ![s] =
                                          [id |-> msg.id, SenderID |-> msg.Data.senderId,
                                           win |-> msg.win]]
    /\ UNCHANGED <<sessN, sess, joinArgs, ctxDone, leftBy, subEnded, inClosed,
                   pm, pmMsg, published, netN, uiVars, hVars, bootVars>>

\* a reader that closes the channel in its error path and again on return
ReadSubNextErrClosesTwice(s) ==
    /\ rs[s] = "next"
    /\ ctxDone[s] \/ (subEnded[s] /\ subQ[s] = <<>>)
    /\ inClosed' = [inClosed EXCEPT ![s] = @ + 2]
    /\ rs' = [rs EXCEPT ![s] = "logClosed"]
    /\ UNCHANGED <<sessN, sess, joinArgs, ctxDone, leftBy, subEnded, subQ,
                   rsMsg, pm, pmMsg, published, netN, uiVars, hVars, bootVars>>

\* cr.subscription.Next returns an error (context cancelled, subscription
\* cancelled or ended): close(cr.Incomming), then the "suberr" log
ReadSubNextErr(s) ==
    /\ rs[s] = "next"
    /\ ctxDone[s] \/ (subEnded[s] /\ subQ[s] = <<>>)
    /\ inClosed' = [inClosed EXCEPT ![s] = @ + 1]
    /\ rs' = [rs EXCEPT ![s] = "logClosed"]
    /\ UNCHANGED <<sessN, sess, joinArgs, ctxDone, leftBy, subEnded, subQ,
                   rsMsg, pm, pmMsg, published, netN, uiVars, hVars, bootVars>>

(***************************************************************************)
(* PubMessages (chat.go)                                                   *)
(***************************************************************************)
\* case <-cr.ctx.Done(): return
PubMessagesCtxDone(s) ==
    /\ pm[s] = "select"
    /\ ctxDone[s]
    /\ pm' = [pm EXCEPT ![s] = "done"]
    /\ UNCHANGED <<sessN, sess, joinArgs, ctxDone, leftBy, subEnded, subQ, inClosed,
                   rs, rsMsg, pmMsg, published, netN, uiVars, hVars, bootVars>>

\* chatMsg := chatMessage{msg, cr.Username, cr.selfID.Pretty()} and
\* json.Marshal, which does not fail on a struct of three strings
PubMessagesBuild(s) ==
    /\ pm[s] = "build"
    /\ pmMsg' = [pmMsg EXCEPT ![s] = [pmMsg[s] EXCEPT !.SenderID = sess[s].selfID,
                                                       !.SenderName = sess[s].Username]]
    /\ pm' = [pm EXCEPT ![s] = "publish"]
    /\ UNCHANGED <<sessN, sess, joinArgs, ctxDone, leftBy, subEnded, subQ, inClosed,
                   rs, rsMsg, published, netN, uiVars, hVars, bootVars>>

\* a publisher that stays at its Publish call after a success
PubMessagesPublishAgain(s) ==
    /\ pm[s] = "publish"
    /\ published' = [published EXCEPT ![s] = Append(@, pmMsg[s])]
    /\ UNCHANGED <<sessN, sess, joinArgs, ctxDone, leftBy, subEnded, subQ, inClosed,
                   rs, rsMsg, pm, pmMsg, netN, uiVars, hVars, bootVars>>

\* cr.topic.Publish(cr.ctx, msgBytes): it fails on a closed topic, and may
\* fail otherwise; the error is reported on cr.Logs
PubMessagesPublish(s) ==
    /\ pm[s] = "publish"
    /\ \E ok \in BOOLEAN :
          IF ok /\ leftBy[s] = {}
            THEN /\ published' = [published EXCEPT ![s] = Append(@, pmMsg[s])]
                 /\ pm' = [pm EXCEPT ![s] = "select"]
            ELSE /\ pm' = [pm EXCEPT ![s] = "logPuberr"]
                 /\ UNCHANGED published
    /\ pmMsg' = [pmMsg EXCEPT ![s] = NoChatMessage]
    /\ UNCHANGED <<sessN, sess, joinArgs, ctxDone, leftBy, subEnded, subQ, inClosed,
                   rs, rsMsg, netN, uiVars, hVars, bootVars>>

(***************************************************************************)
(* The network substrate                                                   *)
(***************************************************************************)
\* a /room handler has joined session s and has not finished its switch
Switching(s) == \E h \in HandlerIds : hnd[h].new = s /\ hnd[h].pc \in {"swap", "sleep"}

\* pub/sub delivers a message of the topic to a live subscription, one of
\* at most max (win records that it arrived while the switch to s was
\* under way)
NetDeliverUpTo(s, m, max) ==
    /\ s \in 1..sessN
    /\ ~subEnded[s]
    /\ netN < max
    /\ netN' = netN + 1
    /\ subQ' = [subQ EXCEPT ![s] = Append(@, [id |-> netN + 1,
                                               ReceivedFrom |-> m.ReceivedFrom,
                                               Data |-> m.Data,
                                               win |-> Switching(s)])]
    /\ UNCHANGED <<sessN, sess, joinArgs, ctxDone, leftBy, subEnded, inClosed,
                   rs, rsMsg, pm, pmMsg, published, uiVars, hVars, bootVars>>

NetDeliver(s, m) == NetDeliverUpTo(s, m, MaxNet)

\* the subscription stream ends from below
NetSubEnd(s) ==
    /\ s \in 1..sessN
    /\ ~subEnded[s]
    /\ subEnded' = [subEnded EXCEPT ![s] = TRUE]
    /\ UNCHANGED <<sessN, sess, joinArgs, ctxDone, leftBy, subQ, inClosed,
                   rs, rsMsg, pm, pmMsg, published, netN, uiVars, hVars, bootVars>>

(***************************************************************************)
(* eventHandler (ui.go): one select over the UI's input channels and the   *)
(* channels of the session ui.ChatRoom points to when the select starts    *)
(***************************************************************************)
BumpLog(prefix) == [logsSeen EXCEPT ![prefix] = @ + 1]

\* case msg := <-ui.MsgInputs: the send ui.Outgoing <- msg starts, for one
\* of at most max lines
UserTextUpTo(t, max) ==
    /\ uiPc = "select"
    /\ ~appStopped
    /\ textN < max
    /\ textN' = textN + 1
    /\ uiPc' = "sendOut"
    /\ uiMsg' = t
    /\ uiSel' = active
    /\ UNCHANGED <<active, appStopped, closed, delivered, zeroRendered,
                   logsSeen, echoed, sessVars, hVars, bootVars>>

UserText(t) == UserTextUpTo(t, MaxTexts)

\* ui.Outgoing <- msg is taken by PubMessages of that session; then
\* printSelfMessage(msg) and the next select
UISendOutgoing ==
    /\ uiPc = "sendOut"
    /\ pm[uiSel] = "select"
    /\ pm' = [pm EXCEPT ![uiSel] = "build"]
    /\ pmMsg' = [pmMsg EXCEPT ![uiSel] = [NoChatMessage EXCEPT
                                            !.Message = uiMsg,
                                            !.handedAs = sess[uiSel].Username,
                                            !.seq = textN]]
    /\ echoed' = Append(echoed, [text |-> uiMsg, name |-> sess[active].Username])
    /\ uiPc' = "select"
    /\ uiMsg' = ""
    /\ uiSel' = active
    /\ UNCHANGED <<active, appStopped, closed, textN, delivered,
                   zeroRendered, logsSeen, sessN, sess, joinArgs, ctxDone, leftBy,
                   subEnded, subQ, inClosed, rs, rsMsg, published, netN, hVars, bootVars>>

\* a loop that runs the handler itself and goes on when it has returned
UserCommandInline(c) ==
    /\ uiPc = "select"
    /\ ~appStopped
    /\ hN < MaxCmds
    /\ hN' = hN + 1
    /\ hnd' = [hnd EXCEPT ![hN + 1] =
                 [NoHandler EXCEPT !.cmdtype = c[1], !.cmdarg = c[2], !.pc = "start"]]
    /\ uiPc' = "handleCommand"
    /\ uiSel' = active
    /\ UNCHANGED <<active, uiMsg, appStopped, closed, textN,
                   delivered, zeroRendered, logsSeen, echoed, sessVars, bootVars>>

\* case cmd := <-ui.CmdInputs: go ui.handleCommand(cmd)
UserCommand(c) ==
    /\ uiPc = "select"
    /\ ~appStopped
    /\ hN < MaxCmds
    /\ hN' = hN + 1
    /\ hnd' = [hnd EXCEPT ![hN + 1] =
                 [NoHandler EXCEPT !.cmdtype = c[1], !.cmdarg = c[2], !.pc = "start"]]
    /\ uiSel' = active
    /\ UNCHANGED <<active, uiPc, uiMsg, appStopped, closed, textN,
                   delivered, zeroRendered, logsSeen, echoed, sessVars, bootVars>>

\* a receive that leaves ReadSub's send pending
UIRecvIncommingAgain ==
    /\ uiPc = "select"
    /\ rs[uiSel] = "sendIncomming"
    /\ delivered' = [delivered EXCEPT ![uiSel] = Append(@, rsMsg[uiSel])]
    /\ uiSel' = active
    /\ UNCHANGED <<active, uiPc, uiMsg, appStopped, closed, textN,
                   zeroRendered, logsSeen, echoed, sessVars, hVars, bootVars>>

\* case msg := <-ui.Incomming: printChatMessage(msg), from ReadSub's send
UIRecvIncomming ==
    /\ uiPc = "select"
    /\ rs[uiSel] = "sendIncomming"
    /\ delivered' = [delivered EXCEPT ![uiSel] = Append(@, rsMsg[uiSel])]
    /\ rs' = [rs EXCEPT ![uiSel] = "next"]
    /\ rsMsg' = [rsMsg EXCEPT ![uiSel] = NoInMessage]
    /\ uiSel' = active
    /\ UNCHANGED <<active, uiPc, uiMsg, appStopped, closed, textN,
                   zeroRendered, logsSeen, echoed, sessN, sess, joinArgs, ctxDone,
                   leftBy, subEnded, subQ, inClosed, pm, pmMsg, published, netN,
                   hVars, bootVars>>

\* case msg := <-ui.Incomming on a closed channel: the receive yields the
\* zero chatMessage at once, and printChatMessage renders it
UIRecvClosedIncomming ==
    /\ uiPc = "select"
    /\ inClosed[uiSel] > 0
    /\ zeroRendered' = TRUE
    /\ uiSel' = active
    /\ UNCHANGED <<active, uiPc, uiMsg, appStopped, closed, textN,
                   delivered, logsSeen, echoed, sessVars, hVars, bootVars>>

\* a reader that goes on reading after every report
AfterSuberrContinue(pc) == "next"

\* a reader that returns after every report
AfterSuberrReturn(pc) == "done"

\* where ReadSub goes on once its "suberr" log is taken: `continue` after a
\* failed json.Unmarshal, `return` after a failed subscription.Next
AfterSuberr(pc) == IF pc = "logUnmarshal" THEN "next" ELSE "done"

\* case log := <-ui.Logs, from ReadSub's "suberr" send
UIRecvLogReadSub ==
    /\ uiPc = "select"
    /\ rs[uiSel] \in {"logUnmarshal", "logClosed"}
    /\ logsSeen' = BumpLog("suberr")
    /\ rs' = [rs EXCEPT ![uiSel] = AfterSuberr(@)]
    /\ uiSel' = active
    /\ UNCHANGED <<active, uiPc, uiMsg, appStopped, closed, textN,
                   delivered, zeroRendered, echoed, sessN, sess, joinArgs, ctxDone,
                   leftBy, subEnded, subQ, inClosed, rsMsg, pm, pmMsg, published, netN,
                   hVars, bootVars>>

\* case log := <-ui.Logs, from PubMessages' "puberr" send
UIRecvLogPub ==
    /\ uiPc = "select"
    /\ pm[uiSel] = "logPuberr"
    /\ logsSeen' = BumpLog("puberr")
    /\ pm' = [pm EXCEPT ![uiSel] = "select"]
    /\ uiSel' = active
    /\ UNCHANGED <<active, uiPc, uiMsg, appStopped, closed, textN,
                   delivered, zeroRendered, echoed, sessN, sess, joinArgs, ctxDone,
                   leftBy, subEnded, subQ, inClosed, rs, rsMsg, pmMsg, published, netN,
                   hVars, bootVars>>

\* a handler whose failure report carries the prefix of a command error
HandlerLogPrefixNoJumperr(pc) ==
    CASE pc = "logBadcmd" -> "badcmd"
      [] pc = "logRoomchange" -> "roomchange"
      [] pc = "logJumperr" -> "badcmd"

\* the log prefix a handler blocked on ui.Logs is sending, and where it
\* continues once the log is taken
HandlerLogPrefix(pc) ==
    CASE pc = "logBadcmd" -> "badcmd"
      [] pc = "logRoomchange" -> "roomchange"
      [] pc = "logJumperr" -> "jumperr"

AfterLog(pc) == IF pc = "logRoomchange" THEN "capture" ELSE "done"

\* case log := <-ui.Logs, from a handleCommand goroutine's send
UIRecvLogHandler(h) ==
    /\ uiPc = "select"
    /\ hnd[h].pc \in {"logBadcmd", "logRoomchange", "logJumperr"}
    /\ hnd[h].logTo = uiSel
    /\ logsSeen' = BumpLog(HandlerLogPrefix(hnd[h].pc))
    /\ hnd' = [hnd EXCEPT ![h].pc = AfterLog(@)]
    /\ uiSel' = active
    /\ UNCHANGED <<active, uiPc, uiMsg, appStopped, closed, textN,
                   delivered, zeroRendered, echoed, sessVars, hN, bootVars>>

\* case <-refresh.C: ui.syncPeerList(); the one-second ticker has ticked
UITick ==
    /\ uiPc = "select"
    /\ uiSel' = active
    /\ UNCHANGED <<active, uiPc, uiMsg, appStopped, closed, textN, delivered,
                   zeroRendered, logsSeen, echoed, sessVars, hVars, bootVars>>

\* case <-ui.ctx.Done(): return
UICtxDone ==
    /\ uiPc = "select"
    /\ ctxDone[uiSel]
    /\ uiPc' = "done"
    /\ UNCHANGED <<active, uiSel, uiMsg, appStopped, closed, textN,
                   delivered, zeroRendered, logsSeen, echoed, sessVars, hVars, bootVars>>

\* ui.Run: TerminalApp.Run() returns once the application is stopped, and
\* the deferred ui.Close() calls ui.cancel()
AppClose ==
    /\ appStopped
    /\ ~closed
    /\ closed' = TRUE
    /\ ctxDone' = [ctxDone EXCEPT ![active] = TRUE]
    /\ UNCHANGED <<active, uiPc, uiSel, uiMsg, appStopped, textN,
                   delivered, zeroRendered, logsSeen, echoed, sessN, sess, joinArgs,
                   leftBy, subEnded, subQ, inClosed, rs, rsMsg, pm, pmMsg, published,
                   netN, hVars, bootVars>>

(***************************************************************************)
(* handleCommand (ui.go), one goroutine per command                        *)
(***************************************************************************)
\* a test that never finds the argument missing
MissingArgNever(cmdarg) == FALSE

\* len(cmd.cmdarg) == 0
MissingArg(cmdarg) == Len(cmdarg) = 0

\* the switch on cmd.cmdtype, up to the first blocking statement
HandleStart(h) ==
    /\ hnd[h].pc = "start"
    /\ LET cmd == hnd[h] IN
       CASE cmd.cmdtype = "/quit" ->
              /\ appStopped' = TRUE
              /\ hnd' = [hnd EXCEPT ![h].pc = "done"]
              /\ UNCHANGED sess
         [] cmd.cmdtype = "/clear" ->
              /\ hnd' = [hnd EXCEPT ![h].pc = "done"]
              /\ UNCHANGED <<appStopped, sess>>
         [] cmd.cmdtype = "/room" ->
              /\ hnd' = [hnd EXCEPT ![h].pc = IF MissingArg(cmd.cmdarg) THEN "logBadcmd"
                                                                      ELSE "logRoomchange",
                                    ![h].logTo = active]
              /\ UNCHANGED <<appStopped, sess>>
         [] cmd.cmdtype = "/user" ->
              IF MissingArg(cmd.cmdarg)
                THEN /\ hnd' = [hnd EXCEPT ![h].pc = "logBadcmd", ![h].logTo = active]
                     /\ UNCHANGED <<appStopped, sess>>
                ELSE \* ui.UpdateUser(cmd.cmdarg): cr.Username = username
                     /\ sess' = [sess EXCEPT ![active].Username = cmd.cmdarg]
                     /\ hnd' = [hnd EXCEPT ![h].pc = "done"]
                     /\ UNCHANGED appStopped
         [] OTHER ->
              /\ hnd' = [hnd EXCEPT ![h].pc = "logBadcmd", ![h].logTo = active]
              /\ UNCHANGED <<appStopped, sess>>
    /\ UNCHANGED <<active, uiPc, uiSel, uiMsg, closed, textN, delivered,
                   zeroRendered, logsSeen, echoed, sessN, joinArgs, ctxDone, leftBy,
                   subEnded, subQ, inClosed, rs, rsMsg, pm, pmMsg, published, netN,
                   hN, bootVars>>

\* oldChatRoom := ui.ChatRoom
HandleCapture(h) ==
    /\ hnd[h].pc = "capture"
    /\ hnd' = [hnd EXCEPT ![h].old = active, ![h].pc = "join"]
    /\ UNCHANGED <<sessVars, uiVars, hN, bootVars>>

\* where the handler goes on after JoinChatRoom returned
AfterJoin(ok) == IF ok THEN "swap" ELSE "logJumperr"

\* newChatRoom, err := JoinChatRoom(ui.Host, ui.Username, cmd.cmdarg)
HandleJoin(h) ==
    /\ hnd[h].pc = "join"
    /\ sessN < MaxSessions
    /\ \E ok \in BOOLEAN :
          IF ok /\ ~TopicJoined(sess[active].Host, TopicName(hnd[h].cmdarg))
            THEN /\ StartSession(sessN + 1, sess[active].Host, sess[active].Username,
                                 hnd[h].cmdarg)
                 /\ hnd' = [hnd EXCEPT ![h].new = sessN + 1, ![h].pc = AfterJoin(TRUE)]
            ELSE /\ hnd' = [hnd EXCEPT ![h].pc = AfterJoin(FALSE), ![h].logTo = active]
                 /\ UNCHANGED sessVars
    /\ UNCHANGED <<uiVars, hN, bootVars>>

\* a handler that assigns the captured session instead of the joined one
HandleSwapBack(h) ==
    /\ hnd[h].pc = "swap"
    /\ active' = hnd[h].old
    /\ hnd' = [hnd EXCEPT ![h].pc = "sleep", ![h].swapped = TRUE]
    /\ UNCHANGED <<uiPc, uiSel, uiMsg, appStopped, closed, textN,
                   delivered, zeroRendered, logsSeen, echoed, sessVars, hN, bootVars>>

\* ui.ChatRoom = newChatRoom, then time.Sleep(time.Second) starts
HandleSwap(h) ==
    /\ hnd[h].pc = "swap"
    /\ active' = hnd[h].new
    /\ hnd' = [hnd EXCEPT ![h].pc = "sleep", ![h].swapped = TRUE]
    /\ UNCHANGED <<uiPc, uiSel, uiMsg, appStopped, closed, textN,
                   delivered, zeroRendered, logsSeen, echoed, sessVars, hN, bootVars>>

\* a handler that calls Leave() through ui.ChatRoom, not oldChatRoom
LeaveTargetActive(h) == active

\* the session a /room handler passes to Leave()
LeaveTarget(h) == hnd[h].old

\* cr.Leave(): cr.subscription.Cancel(), cr.topic.Close(), deferred cr.cancel()
Leave(s, h) ==
    /\ leftBy' = [leftBy EXCEPT ![s] = @ \cup {h}]
    /\ subEnded' = [subEnded EXCEPT ![s] = TRUE]
    /\ ctxDone' = [ctxDone EXCEPT ![s] = TRUE]

\* time.Sleep(time.Second) returns; oldChatRoom.Leave(),
\* ui.messageList.Clear(), ui.messageList.SetTitle(...)
HandleLeave(h) ==
    /\ hnd[h].pc = "sleep"
    /\ Leave(LeaveTarget(h), h)
    /\ hnd' = [hnd EXCEPT ![h].pc = "done"]
    /\ UNCHANGED <<sessN, sess, joinArgs, subQ, inClosed, rs, rsMsg, pm, pmMsg,
                   published, netN, uiVars, hN, bootVars>>

(***************************************************************************)
(* The chat application: main has joined the first room and runs the UI    *)
(***************************************************************************)
\* the -user and -room flags main passes to JoinChatRoom
StartFlags == {<<"", "">>}

\* the values of the -discovery flag: absent, the two strategies, another
DiscoveryFlags == {"", "announce", "advertise", "dht"}

\* switch *discovery: "announce" and the default start AnnounceConnect,
\* "advertise" starts AdvertiseConnect
DiscoveryFor(flag) ==
    CASE flag = "announce" -> "AnnounceConnect"
      [] flag = "advertise" -> "AdvertiseConnect"
      [] OTHER -> "AnnounceConnect"

\* where a strategy starts, and the calls it makes when none fails
FirstCall(used) == IF used = "AdvertiseConnect" THEN "advertise" ELSE "provide"

CallsOf(used) ==
    IF used = "AdvertiseConnect"
      THEN <<"Advertise", "FindPeers", "handlePeerDiscovery">>
      ELSE <<"Provide", "FindProvidersAsync", "handlePeerDiscovery">>

\* main before the discovery switch
NoDiscovery(flag) ==
    [flag |-> flag, used |-> "none", pc |-> "switch", calls |-> <<>>, failed |-> ""]

BootIdle ==
    /\ discovery = [NoDiscovery("") EXCEPT !.used = DiscoveryFor(""),
                                           !.pc = "returned",
                                           !.calls = CallsOf(DiscoveryFor(""))]
    /\ bootN = 0
    /\ bootPc = "returned"
    /\ bpc = <<>>
    /\ bok = <<>>
    /\ breg = <<>>
    /\ connectedBootPeers = 0
    /\ totalBootPeers = 0
    /\ gErr = FALSE

NoSessions ==
    /\ sessN = 0
    /\ sess = [s \in SessIds |-> NoSession]
    /\ joinArgs = [s \in SessIds |-> NoArgs]
    /\ ctxDone = [s \in SessIds |-> FALSE]
    /\ leftBy = [s \in SessIds |-> {}]
    /\ subEnded = [s \in SessIds |-> FALSE]
    /\ subQ = [s \in SessIds |-> <<>>]
    /\ inClosed = [s \in SessIds |-> 0]
    /\ rs = [s \in SessIds |-> "none"]
    /\ rsMsg = [s \in SessIds |-> NoInMessage]
    /\ pm = [s \in SessIds |-> "none"]
    /\ pmMsg = [s \in SessIds |-> NoChatMessage]
    /\ published = [s \in SessIds |-> <<>>]
    /\ netN = 0

UIStart(first) ==
    /\ active = first
    /\ uiPc = "select"
    /\ uiSel = first
    /\ uiMsg = ""
    /\ appStopped = FALSE
    /\ closed = FALSE
    /\ textN = 0
    /\ delivered = [s \in SessIds |-> <<>>]
    /\ zeroRendered = FALSE
    /\ logsSeen = [p \in LogPrefixes |-> 0]
    /\ echoed = <<>>
    /\ hN = 0
    /\ hnd = [h \in HandlerIds |-> NoHandler]

\* chatApp, _ := JoinChatRoom(p2p, *username, *chatroom); ui := NewUI(chatApp)
Init ==
    /\ BootIdle
    /\ \E f \in StartFlags :
          /\ sessN = 1
          /\ sess = [s \in SessIds |-> IF s = 1 THEN JoinChatRoom("self", f[1], f[2])
                                                ELSE NoSession]
          /\ joinArgs = [s \in SessIds |-> IF s = 1 THEN [username |-> f[1], roomName |-> f[2]]
                                                    ELSE NoArgs]
    /\ ctxDone = [s \in SessIds |-> FALSE]
    /\ leftBy = [s \in SessIds |-> {}]
    /\ subEnded = [s \in SessIds |-> FALSE]
    /\ subQ = [s \in SessIds |-> <<>>]
    /\ inClosed = [s \in SessIds |-> 0]
    /\ rs = [s \in SessIds |-> IF s = 1 THEN "next" ELSE "none"]
    /\ rsMsg = [s \in SessIds |-> NoInMessage]
    /\ pm = [s \in SessIds |-> IF s = 1 THEN "select" ELSE "none"]
    /\ pmMsg = [s \in SessIds |-> NoChatMessage]
    /\ published = [s \in SessIds |-> <<>>]
    /\ netN = 0
    /\ UIStart(1)

\* the steps a cancellation or a closed stream causes in a session's goroutines
CancelSteps ==
    \/ \E s \in SessIds : ReadSubCtxDone(s)
    \/ \E s \in SessIds : ReadSubNextErr(s)
    \/ \E s \in SessIds : PubMessagesCtxDone(s)

\* the event loop's cases that need neither inbound messages nor free text
LoopSteps ==
    \/ UIRecvClosedIncomming
    \/ UIRecvLogReadSub
    \/ \E h \in HandlerIds : UIRecvLogHandler(h)
    \/ UITick
    \/ UICtxDone

HandlerSteps ==
    \/ \E h \in HandlerIds : HandleStart(h)
    \/ \E h \in HandlerIds : HandleCapture(h)
    \/ \E h \in HandlerIds : HandleJoin(h)
    \/ \E h \in HandlerIds : HandleSwap(h)
    \/ \E h \in HandlerIds : HandleLeave(h)

\* inbound traffic: the network, ReadSub's decoding, the loop's Incomming case
InboundSteps ==
    \/ \E s \in SessIds, m \in NetMessages : NetDeliver(s, m)
    \/ \E s \in SessIds : ReadSubNext(s)
    \/ UIRecvIncomming

\* outbound traffic: free text, the hand-over to PubMessages, publishing
OutboundSteps ==
    \/ \E t \in Texts : UserText(t)
    \/ UISendOutgoing
    \/ \E s \in SessIds : PubMessagesBuild(s)
    \/ \E s \in SessIds : PubMessagesPublish(s)
    \/ UIRecvLogPub

\* the user types slash commands only
Next ==
    \/ CancelSteps
    \/ LoopSteps
    \/ HandlerSteps
    \/ AppClose
    \/ \E c \in Commands : UserCommand(c)

Spec == Init /\ [][Next]_vars

\* the user submits a command only when no handler is running
UserCommandAlone(c) ==
    /\ \A h \in HandlerIds : hnd[h].pc \in {"idle", "done"}
    /\ UserCommand(c)

NextOneByOne ==
    \/ CancelSteps
    \/ LoopSteps
    \/ HandlerSteps
    \/ AppClose
    \/ \E c \in Commands : UserCommandAlone(c)

SpecOneByOne == Init /\ [][NextOneByOne]_vars

\* one room, no commands: the network delivers messages and may end the
\* subscription
NextRead ==
    \/ \E s \in SessIds, m \in NetMessages : NetDeliverUpTo(s, m, MaxInbound)
    \/ \E s \in SessIds : NetSubEnd(s)
    \/ \E s \in SessIds : ReadSubNext(s)
    \/ \E s \in SessIds : ReadSubNextErr(s)
    \/ UIRecvIncomming
    \/ UIRecvClosedIncomming
    \/ UIRecvLogReadSub
    \/ UITick

SpecRead == Init /\ [][NextRead]_vars

\* one room, no commands: the user submits free text
NextWrite ==
    \/ \E t \in MoreTexts : UserTextUpTo(t, MaxOutbound)
    \/ UISendOutgoing
    \/ \E s \in SessIds : PubMessagesBuild(s)
    \/ \E s \in SessIds : PubMessagesPublish(s)
    \/ UIRecvLogPub
    \/ UITick

SpecWrite == Init /\ [][NextWrite]_vars

\* the user renames and submits free text in one room
NextRename ==
    \/ \E c \in RenameCommands : UserCommand(c)
    \/ \E h \in HandlerIds : HandleStart(h)
    \/ \E h \in HandlerIds : UIRecvLogHandler(h)
    \/ UITick
    \/ OutboundSteps

SpecRename == Init /\ [][NextRename]_vars

(***************************************************************************)
(* The input field's DoneFunc (NewUI, ui.go): an input line is a sequence  *)
(* of characters, "/" the slash, " " the space, "a" any other character    *)
(***************************************************************************)
Chars == {"/", "a", " "}

Lines == UNION {[1..n -> Chars] : n \in 0..MaxLine}

\* the positions of sep in s
SepAt(s, sep) == {i \in 1..Len(s) : s[i] = sep}

\* the least element of a non-empty set of positions
Least(S) == CHOOSE i \in S : \A j \in S : i <= j

\* strings.Split(s, sep) for a one-character sep: the pieces between the
\* separators, empty pieces included
RECURSIVE Split(_, _)
Split(s, sep) ==
    IF SepAt(s, sep) = {}
      THEN <<s>>
      ELSE LET k == Least(SepAt(s, sep)) IN
           <<SubSeq(s, 1, k - 1)>> \o Split(SubSeq(s, k + 1, Len(s)), sep)

\* strings.HasPrefix(line, "/")
HasSlashPrefix(line) == Len(line) > 0 /\ line[1] = "/"

\* cmdparts := strings.Split(line, " "), with "" appended to a single part
CmdParts(line) ==
    LET cmdparts == Split(line, " ") IN
    IF Len(cmdparts) = 1 THEN Append(cmdparts, <<>>) ELSE cmdparts

\* uiCommand{cmdtype: cmdparts[0], cmdarg: cmdparts[1]}
ParseCommand(line) == [cmdtype |-> CmdParts(line)[1], cmdarg |-> CmdParts(line)[2]]

\* Enter was pressed on the line: an empty line is dropped, a line with a
\* leading "/" goes to cmdchan as a parsed command, any other to msgchan;
\* the event loop receives it (go ui.handleCommand(cmd), ui.Outgoing <- msg)
InputDone(l) ==
    /\ uiPc = "select"
    /\ ~appStopped
    /\ IF Len(l) = 0
         THEN UNCHANGED <<uiVars, hVars>>
         ELSE IF HasSlashPrefix(l)
                THEN /\ hN < MaxCmds
                     /\ hN' = hN + 1
                     /\ hnd' = [hnd EXCEPT ![hN + 1] =
                                  [NoHandler EXCEPT !.cmdtype = ParseCommand(l).cmdtype,
                                                    !.cmdarg = ParseCommand(l).cmdarg,
                                                    !.pc = "start",
                                                    !.line = l]]
                     /\ uiSel' = active
                     /\ UNCHANGED <<active, uiPc, uiMsg, appStopped, closed, textN,
                                    delivered, zeroRendered, logsSeen, echoed>>
                ELSE /\ textN < MaxTexts
                     /\ textN' = textN + 1
                     /\ uiPc' = "sendOut"
                     /\ uiMsg' = l
                     /\ uiSel' = active
                     /\ UNCHANGED <<active, appStopped, closed, delivered, zeroRendered,
                                    logsSeen, echoed, hVars>>
    /\ UNCHANGED <<sessVars, bootVars>>

\* the first line the user submits
NextParse == \E l \in Lines : hN = 0 /\ textN = 0 /\ InputDone(l)

SpecParse == Init /\ [][NextParse]_vars

\* the commands of a run that ends with /quit
QuitCommands == {<<"/quit", "">>, <<"/nick", "">>}

\* the user submits free text and quits
NextQuit ==
    \/ CancelSteps
    \/ LoopSteps
    \/ \E h \in HandlerIds : HandleStart(h)
    \/ AppClose
    \/ OutboundSteps
    \/ \E c \in QuitCommands : UserCommand(c)

SpecQuit == Init /\ [][NextQuit]_vars

\* the first command the user submits
FirstCommand(c) ==
    /\ hN = 0
    /\ UserCommand(c)

\* the user switches rooms once and submits free text, while the network
\* delivers messages
NextSwitch ==
    \/ CancelSteps
    \/ LoopSteps
    \/ HandlerSteps
    \/ InboundSteps
    \/ OutboundSteps
    \/ \E c \in RoomCommands : FirstCommand(c)

SpecSwitch == Init /\ [][NextSwitch]_vars

\* the user switches rooms once while the network delivers messages and
\* may end any subscription
NextClose ==
    \/ CancelSteps
    \/ LoopSteps
    \/ HandlerSteps
    \/ InboundSteps
    \/ \E s \in SessIds : NetSubEnd(s)
    \/ \E c \in RoomCommands : FirstCommand(c)

SpecClose == Init /\ [][NextClose]_vars

\* the user switches rooms, and may do so again before a switch has ended
NextRooms ==
    \/ CancelSteps
    \/ LoopSteps
    \/ HandlerSteps
    \/ \E c \in RoomCommands : UserCommand(c)

SpecRooms == Init /\ [][NextRooms]_vars

\* the user switches rooms while the network delivers messages
NextInbound ==
    \/ CancelSteps
    \/ LoopSteps
    \/ HandlerSteps
    \/ InboundSteps
    \/ \E c \in RoomCommands : UserCommand(c)

SpecInbound == Init /\ [][NextInbound]_vars

\* the user switches rooms and submits free text
NextOutbound ==
    \/ CancelSteps
    \/ LoopSteps
    \/ HandlerSteps
    \/ OutboundSteps
    \/ \E c \in RoomCommands : UserCommand(c)

SpecOutbound == Init /\ [][NextOutbound]_vars

(***************************************************************************)
(* JoinChatRoom alone: sessions joined on any host with any arguments      *)
(***************************************************************************)
JoinInit ==
    /\ BootIdle
    /\ NoSessions
    /\ UIStart(0)

JoinCall(p2p, username, roomName) ==
    /\ sessN < MaxSessions
    /\ ~TopicJoined(p2p, TopicName(roomName))
    /\ StartSession(sessN + 1, p2p, username, roomName)
    /\ UNCHANGED <<uiVars, hVars, bootVars>>

JoinNext == \E p \in Clients, u \in NameArgs, r \in NameArgs : JoinCall(p, u, r)

SpecJoin == JoinInit /\ [][JoinNext]_vars

(***************************************************************************)
(* Properties of room switching (Spec)                                     *)
(***************************************************************************)
\* C2: Leave() is invoked on a session only by a /room handler whose
\* JoinChatRoom returned a session and which has swapped ui.ChatRoom to it,
\* and ui.ChatRoom always points to a session Leave() was not called on.
C2_LeaveOnlyAfterSwap ==
    /\ \A s \in 1..sessN : \A h \in leftBy[s] :
          /\ hnd[h].new \in 1..sessN
          /\ rs[hnd[h].new] # "none"
          /\ hnd[h].swapped
    /\ leftBy[active] = {}

\* a finished switch: the old session left, the new one active
C2_Witness ==
    \E h \in HandlerIds :
       /\ hnd[h].pc = "done"
       /\ hnd[h].swapped
       /\ h \in leftBy[hnd[h].old]
       /\ active = hnd[h].new

\* C3: Leave() is called at most once on any session, whatever the
\* overlap of the /room handlers.
C3_LeaveAtMostOnce == \A s \in 1..sessN : Cardinality(leftBy[s]) <= 1

AllHandlersFinished == \A h \in HandlerIds : hnd[h].pc \in {"idle", "done"}

\* C4: once every dispatched command has finished, every session that was
\* joined and is not ui.ChatRoom has had Leave() called on it.
C4_NoSessionLeaked ==
    AllHandlersFinished => \A s \in 1..sessN : s # active => leftBy[s] # {}

(***************************************************************************)
(* Properties of inbound traffic (SpecInbound)                             *)
(***************************************************************************)
\* a message of a remote author, forwarded by a remote peer, that decodes
RemoteDecodable(s, m) ==
    /\ m.Data.valid
    /\ m.ReceivedFrom # sess[s].selfID
    /\ m.Data.senderId # sess[s].selfID

\* session s holds such a message that its subscription received while the
\* switch to s was under way, and the loop has not taken it
WinPending(s) ==
    \/ \E i \in 1..Len(subQ[s]) : subQ[s][i].win /\ RemoteDecodable(s, subQ[s][i])
    \/ rs[s] = "sendIncomming" /\ rsMsg[s].win /\ rsMsg[s].SenderID # sess[s].selfID

\* C5: a decodable message of a remote peer that the new session's
\* subscription receives between the join and the end of the switch is
\* taken from Incomming by the event loop and rendered: it is never still
\* on its way to the loop when eventHandler has returned.
C5_SwitchMessagesDelivered ==
    \A s \in 1..sessN : ~(WinPending(s) /\ uiPc = "done")

\* C6: ReadSub never sends to Incomming a message whose payload senderId is
\* the local peer ID, whoever forwarded it.
C6_NoSelfEcho ==
    \A s \in 1..sessN :
       /\ rs[s] = "sendIncomming" => rsMsg[s].SenderID # sess[s].selfID
       /\ \A i \in 1..Len(delivered[s]) : delivered[s][i].SenderID # sess[s].selfID

(***************************************************************************)
(* Termination of a session's goroutines (SpecInbound, SpecOutbound)       *)
(***************************************************************************)
\* the event loop can still come to receive from the channels of session s:
\* it has not returned, and its select, ui.ChatRoom or the assignment a
\* /room handler is about to make refers to s
LoopReads(s) ==
    /\ uiPc # "done"
    /\ \/ uiSel = s
       \/ active = s
       \/ \E h \in HandlerIds : hnd[h].new = s /\ hnd[h].pc = "swap"

\* C7: once cr.ctx is cancelled, ReadSub returns, whatever it was doing and
\* whether or not the UI still reads the session's channels: it is never
\* left in a send on Incomming or Logs that nothing will receive.
C7_ReadSubTerminates ==
    \A s \in 1..sessN :
       ~(/\ ctxDone[s]
         /\ rs[s] \in {"sendIncomming", "logUnmarshal", "logClosed"}
         /\ ~LoopReads(s))

\* C8: once cr.ctx is cancelled, PubMessages returns: it is never left in
\* the send of a puberr on the Logs of a session the UI no longer reads.
C8_PubMessagesTerminates ==
    \A s \in 1..sessN :
       ~(ctxDone[s] /\ pm[s] = "logPuberr" /\ ~LoopReads(s))

(***************************************************************************)
(* Properties of JoinChatRoom (SpecJoin)                                   *)
(***************************************************************************)
\* C9: two sessions are bound to the same topic if and only if their
\* RoomName fields are equal.
C9_SameTopicIffSameRoomName ==
    \A s, u \in 1..sessN :
       (sess[s].topic = sess[u].topic) <=> (sess[s].RoomName = sess[u].RoomName)

\* C10: an empty username gives Username "anon", an empty roomName gives
\* RoomName "lobby", and no joined session has an empty Username or RoomName.
C10_DefaultsApplied ==
    \A s \in 1..sessN :
       /\ joinArgs[s].username = "" => sess[s].Username = "anon"
       /\ joinArgs[s].roomName = "" => sess[s].RoomName = "lobby"
       /\ sess[s].Username # ""
       /\ sess[s].RoomName # ""

\* all four cases: both empty, either empty, none empty
C10_Witness ==
    /\ \E s \in 1..sessN : joinArgs[s] = [username |-> "", roomName |-> ""]
                           /\ sess[s].Username = "anon" /\ sess[s].RoomName = "lobby"
    /\ \E s \in 1..sessN : joinArgs[s].username = "" /\ joinArgs[s].roomName # ""
    /\ \E s \in 1..sessN : joinArgs[s].username # "" /\ joinArgs[s].roomName = ""

(***************************************************************************)
(* bootstrapDHT                                                            *)
(***************************************************************************)
BootStart ==
    /\ bootN \in 0..MaxBootPeers
    /\ bootPc = "bootstrap"
    /\ bpc = [i \in 1..bootN |-> "idle"]
    /\ bok = [i \in 1..bootN |-> FALSE]
    /\ breg = [i \in 1..bootN |-> 0]
    /\ connectedBootPeers = 0
    /\ totalBootPeers = 0
    /\ gErr = FALSE
    /\ NoSessions
    /\ UIStart(0)

BootInit ==
    /\ BootStart
    /\ discovery = NoDiscovery("")

\* kadDHT.Bootstrap(ctx): an error is fatal; otherwise one goroutine per
\* bootstrap peer is started with g.Go
KadBootstrap ==
    /\ bootPc = "bootstrap"
    /\ \E ok \in BOOLEAN :
          IF ok
            THEN /\ bootPc' = "wait"
                 /\ bpc' = [i \in 1..bootN |-> "connect"]
            ELSE /\ bootPc' = "fatal"
                 /\ UNCHANGED bpc
    /\ UNCHANGED <<discovery, bootN, bok, breg, connectedBootPeers, totalBootPeers, gErr, chatVars>>

\* err := nodeHost.Connect(ctx, *peerInfo)
BootConnect(i) ==
    /\ bpc[i] = "connect"
    /\ \E ok \in BOOLEAN :
          /\ bok' = [bok EXCEPT ![i] = ok]
          /\ bpc' = [bpc EXCEPT ![i] = IF ok THEN "loadConnected" ELSE "loadTotal"]
    /\ UNCHANGED <<discovery, bootN, bootPc, breg, connectedBootPeers, totalBootPeers, gErr, chatVars>>

\* connectedBootPeers++ is a plain load and a plain store of a shared int
BootLoadConnected(i) ==
    /\ bpc[i] = "loadConnected"
    /\ breg' = [breg EXCEPT ![i] = connectedBootPeers]
    /\ bpc' = [bpc EXCEPT ![i] = "storeConnected"]
    /\ UNCHANGED <<discovery, bootN, bootPc, bok, connectedBootPeers, totalBootPeers, gErr, chatVars>>

BootStoreConnected(i) ==
    /\ bpc[i] = "storeConnected"
    /\ connectedBootPeers' = breg[i] + 1
    /\ bpc' = [bpc EXCEPT ![i] = "loadTotal"]
    /\ UNCHANGED <<discovery, bootN, bootPc, bok, breg, totalBootPeers, gErr, chatVars>>

\* totalBootPeers++ likewise
BootLoadTotal(i) ==
    /\ bpc[i] = "loadTotal"
    /\ breg' = [breg EXCEPT ![i] = totalBootPeers]
    /\ bpc' = [bpc EXCEPT ![i] = "storeTotal"]
    /\ UNCHANGED <<discovery, bootN, bootPc, bok, connectedBootPeers, totalBootPeers, gErr, chatVars>>

\* the store of totalBootPeers++ and `return err`: errgroup keeps the first
\* non-nil error
BootStoreTotal(i) ==
    /\ bpc[i] = "storeTotal"
    /\ totalBootPeers' = breg[i] + 1
    /\ gErr' = (gErr \/ ~bok[i])
    /\ bpc' = [bpc EXCEPT ![i] = "done"]
    /\ UNCHANGED <<discovery, bootN, bootPc, bok, breg, connectedBootPeers, chatVars>>

\* the test bootstrapDHT makes on the value of g.Wait(): err == nil
WaitEntersFatalBranch(err) == ~err

\* if err := g.Wait(); err == nil { ... err.Error() ... Fatalln(...) }
\* the branch is entered with a nil error, and err.Error() on it panics
BootWait ==
    /\ bootPc = "wait"
    /\ \A i \in 1..bootN : bpc[i] = "done"
    /\ bootPc' = IF WaitEntersFatalBranch(gErr) THEN "aborted" ELSE "returned"
    /\ UNCHANGED <<discovery, bootN, bpc, bok, breg, connectedBootPeers, totalBootPeers, gErr, chatVars>>

BootNext ==
    \/ KadBootstrap
    \/ \E i \in 1..bootN : BootConnect(i)
    \/ \E i \in 1..bootN : BootLoadConnected(i)
    \/ \E i \in 1..bootN : BootStoreConnected(i)
    \/ \E i \in 1..bootN : BootLoadTotal(i)
    \/ \E i \in 1..bootN : BootStoreTotal(i)
    \/ BootWait

SpecBoot == BootInit /\ [][BootNext]_vars

(***************************************************************************)
(* main up to the discovery switch: the flags, NewP2P with bootstrapDHT,   *)
(* then the discovery strategy                                             *)
(***************************************************************************)
MainInit ==
    /\ BootStart
    /\ \E f \in DiscoveryFlags : discovery = NoDiscovery(f)

\* switch *discovery { ... }, once NewP2P has returned
MainDiscover ==
    /\ bootPc = "returned"
    /\ discovery.used = "none"
    /\ discovery' = [discovery EXCEPT !.used = DiscoveryFor(discovery.flag),
                                      !.pc = FirstCall(DiscoveryFor(discovery.flag))]
    /\ UNCHANGED <<bootN, bootPc, bpc, bok, breg, connectedBootPeers, totalBootPeers,
                   gErr, chatVars>>

\* a strategy that goes on after a failed first call
AfterFirstCallIgnoresError(pc, ok) ==
    IF pc = "advertise" THEN "findPeers" ELSE "findProviders"

\* if err != nil { ...Fatalln(...) } after Advertise and after Provide
AfterFirstCall(pc, ok) ==
    IF ~ok THEN "fatal"
    ELSE IF pc = "advertise" THEN "findPeers" ELSE "findProviders"

\* one call of a discovery strategy, recorded with its outcome
DiscoveryCall(name, next, ok) ==
    /\ discovery' = [discovery EXCEPT !.calls = Append(@, name),
                                      !.failed = IF ok THEN @ ELSE name,
                                      !.pc = next]
    /\ UNCHANGED <<bootN, bootPc, bpc, bok, breg, connectedBootPeers, totalBootPeers,
                   gErr, chatVars>>

\* AdvertiseConnect: ttl, err := p2p.Discovery.Advertise(p2p.Ctx, serviceName)
Advertise ==
    /\ discovery.pc = "advertise"
    /\ \E ok \in BOOLEAN :
          DiscoveryCall("Advertise", AfterFirstCall(discovery.pc, ok), ok)

\* peerchan, err := p2p.Discovery.FindPeers(p2p.Ctx, serviceName), after
\* the sleep; an error is fatal
FindPeers ==
    /\ discovery.pc = "findPeers"
    /\ \E ok \in BOOLEAN :
          DiscoveryCall("FindPeers", IF ok THEN "connector" ELSE "fatal", ok)

\* AnnounceConnect: p2p.KadDHT.Provide(p2p.Ctx, cid, true)
Provide ==
    /\ discovery.pc = "provide"
    /\ \E ok \in BOOLEAN :
          DiscoveryCall("Provide", AfterFirstCall(discovery.pc, ok), ok)

\* peerChan := p2p.KadDHT.FindProvidersAsync(p2p.Ctx, cid, 0), after the
\* sleep; it returns no error
FindProvidersAsync ==
    /\ discovery.pc = "findProviders"
    /\ DiscoveryCall("FindProvidersAsync", "connector", TRUE)

\* go handlePeerDiscovery(p2p.Host, peerchan), and the strategy returns
StartConnector ==
    /\ discovery.pc = "connector"
    /\ DiscoveryCall("handlePeerDiscovery", "returned", TRUE)

DiscoverySteps ==
    \/ Advertise
    \/ FindPeers
    \/ Provide
    \/ FindProvidersAsync
    \/ StartConnector

MainNext ==
    \/ BootNext
    \/ MainDiscover
    \/ DiscoverySteps

SpecMain == MainInit /\ [][MainNext]_vars

(***************************************************************************)
(* Properties of bootstrapDHT (SpecBoot)                                   *)
(***************************************************************************)
\* number of bootstrap peers whose Connect succeeded
BootSucceeded == Cardinality({i \in 1..bootN : bpc[i] # "connect" /\ bpc[i] # "idle" /\ bok[i]})

BootFinished == bootPc \in {"aborted", "returned"}

\* C1: once all N attempts have completed, bootstrapDHT has aborted the
\* process if and only if no Connect succeeded (k = 0); for every k >= 1 it
\* has returned normally.
C1_FatalIffNoneConnected ==
    BootFinished => ((bootPc = "aborted") <=> (BootSucceeded = 0))

(***************************************************************************)
(* Properties of command handling (Spec)                                   *)
(***************************************************************************)
\* what a handler that does not switch leaves alone: ui.ChatRoom, the set
\* of sessions, every Leave(), every context, subscription and goroutine
KeepsSessions ==
    UNCHANGED <<active, sessN, sess, leftBy, ctxDone, subEnded, rs, pm>>

\* C11: when JoinChatRoom fails in a /room handler, the handler does not
\* assign ui.ChatRoom, does not call Leave(), leaves the goroutines of the
\* old session running, and finishes by having a "jumperr" log taken.
C11_JoinFailureKeepsOldSession ==
    [][\A h \in HandlerIds :
          /\ (hnd[h].pc = "join" /\ hnd'[h].pc = "logJumperr") =>
                /\ KeepsSessions
                /\ hnd'[h].new = 0
                /\ ~hnd'[h].swapped
          /\ (hnd[h].pc = "logJumperr" /\ hnd'[h].pc # "logJumperr") =>
                /\ KeepsSessions
                /\ hnd'[h].pc = "done"
                /\ logsSeen' = [logsSeen EXCEPT !["jumperr"] = @ + 1]
                /\ \A s \in SessIds : h \notin leftBy'[s]
          /\ hnd[h].pc = "done" => hnd'[h] = hnd[h]]_vars

\* a /room handler has finished after its join failed and its log was taken
C11_Witness ==
    \E h \in HandlerIds :
       /\ hnd[h].cmdtype = "/room"
       /\ hnd[h].pc = "done"
       /\ hnd[h].old # 0
       /\ hnd[h].new = 0
       /\ logsSeen["jumperr"] > 0
       /\ active = hnd[h].old
       /\ rs[active] = "next"
       /\ pm[active] = "select"

\* C12: a /room or /user command without an argument has exactly one
\* "badcmd" log taken and does nothing else: no join, no Leave(), no
\* assignment of ui.ChatRoom, no change of a Username.
C12_MissingArgumentOnlyLogs ==
    [][\A h \in HandlerIds :
          (/\ hnd[h].cmdtype \in {"/room", "/user"}
           /\ hnd[h].cmdarg = ""
           /\ hnd'[h] # hnd[h]) =>
             /\ KeepsSessions
             /\ \/ /\ hnd[h].pc = "start"
                   /\ hnd'[h].pc = "logBadcmd"
                   /\ UNCHANGED logsSeen
                \/ /\ hnd[h].pc = "logBadcmd"
                   /\ hnd'[h].pc = "done"
                   /\ logsSeen' = [logsSeen EXCEPT !["badcmd"] = @ + 1]]_vars

\* a /room and a /user without argument have both finished, each with its log
C12_Witness ==
    /\ \E h \in HandlerIds :
          hnd[h].cmdtype = "/room" /\ hnd[h].cmdarg = "" /\ hnd[h].pc = "done"
    /\ \E h \in HandlerIds :
          hnd[h].cmdtype = "/user" /\ hnd[h].cmdarg = "" /\ hnd[h].pc = "done"
    /\ logsSeen["badcmd"] = 2
    /\ active = 1
    /\ sessN = 1
    /\ sess[1].Username = "anon"

(***************************************************************************)
(* Properties of commands handled one at a time (SpecOneByOne)             *)
(***************************************************************************)
\* C13: when a /room <name> handler that ran alone has finished after a
\* successful join, ui.ChatRoom is the session it joined, whose RoomName is
\* <name> and whose Username is the one ui.Username had for the command.
C13_RoomSwitchResult ==
    \A h \in HandlerIds :
       (/\ h = hN
        /\ hnd[h].cmdtype = "/room"
        /\ hnd[h].pc = "done"
        /\ hnd[h].new # 0) =>
          /\ active = hnd[h].new
          /\ sess[active].RoomName = hnd[h].cmdarg
          /\ sess[active].Username = sess[hnd[h].old].Username
          /\ sess[active].Username = joinArgs[active].username

\* a switch to room "a" has finished after the user renamed to "bob"
C13_Witness ==
    /\ hN = 2
    /\ hnd[1].cmdtype = "/user"
    /\ hnd[2].cmdtype = "/room"
    /\ hnd[2].pc = "done"
    /\ active = 2
    /\ sess[2].RoomName = "a"
    /\ sess[2].Username = "bob"

(***************************************************************************)
(* Properties of command parsing (SpecParse)                               *)
(***************************************************************************)
\* a line of non-empty tokens with one space between them
SingleSpaced(line) ==
    /\ Len(line) > 0
    /\ line[1] # " "
    /\ line[Len(line)] # " "
    /\ \A i \in 1..(Len(line) - 1) : ~(line[i] = " " /\ line[i + 1] = " ")

\* the first whitespace-delimited token of a line
FirstToken(line) ==
    IF SepAt(line, " ") = {} THEN line
    ELSE SubSeq(line, 1, Least(SepAt(line, " ")) - 1)

\* the whole of the line after its first token and the space that ends it
Remainder(line) ==
    IF SepAt(line, " ") = {} THEN <<>>
    ELSE SubSeq(line, Least(SepAt(line, " ")) + 1, Len(line))

\* C14: the command type of a line starting with "/" is its first
\* whitespace-delimited token and the command argument is the entire
\* remainder of the line, spaces included.
C14_ArgumentIsRemainder ==
    \A h \in 1..hN :
       SingleSpaced(hnd[h].line) =>
          /\ hnd[h].cmdtype = FirstToken(hnd[h].line)
          /\ hnd[h].cmdarg = Remainder(hnd[h].line)

(***************************************************************************)
(* Properties of renaming (SpecRename)                                     *)
(***************************************************************************)
\* C15: a text is published under the Username the session had when the
\* text was handed to Outgoing: the previous name for a text handed over
\* before UpdateUser(name), name for a text handed over after it.
C15_RenameNotRetroactive ==
    \A s \in 1..sessN : \A i \in 1..Len(published[s]) :
       published[s][i].SenderName = published[s][i].handedAs

(***************************************************************************)
(* Properties of inbound order (SpecRead)                                  *)
(***************************************************************************)
\* C16: the event loop takes the decoded messages of a session in the
\* order ReadSub obtained them from the subscription (id is the order of
\* arrival): none twice, none before an earlier one, and what is still on
\* its way arrived later than all that was taken.
C16_InboundOrder ==
    \A s \in 1..sessN :
       /\ \A i, j \in 1..Len(delivered[s]) :
             i < j => delivered[s][i].id < delivered[s][j].id
       /\ \A i \in 1..Len(delivered[s]) :
             /\ rs[s] = "sendIncomming" => delivered[s][i].id < rsMsg[s].id
             /\ \A k \in 1..Len(subQ[s]) : delivered[s][i].id < subQ[s][k].id

\* the first and the third message were taken, the second was skipped
C16_Witness ==
    /\ Len(delivered[1]) = 2
    /\ delivered[1][1].id = 1
    /\ delivered[1][2].id = 3

(***************************************************************************)
(* Properties of outbound order (SpecWrite)                                *)
(***************************************************************************)
\* C17: PubMessages gives the texts of a session to Publish in the order
\* in which the event loop received them (seq), each one unchanged and at
\* most once; the text it holds was received after all it has published.
C17_OutboundOrder ==
    \A s \in 1..sessN :
       /\ \A i, j \in 1..Len(published[s]) :
             i < j => published[s][i].seq < published[s][j].seq
       /\ \A i \in 1..Len(published[s]) :
             /\ published[s][i].seq \in 1..Len(echoed)
             /\ published[s][i].Message = echoed[published[s][i].seq].text
             /\ pm[s] \in {"build", "publish"} => published[s][i].seq < pmMsg[s].seq

\* three texts were submitted, the second was not published, and the first
\* and the third differ
C17_Witness ==
    /\ Len(echoed) = 3
    /\ Len(published[1]) = 2
    /\ published[1][1].seq = 1
    /\ published[1][2].seq = 3
    /\ published[1][1].Message # published[1][2].Message

(***************************************************************************)
(* Ownership of ui.ChatRoom (Spec)                                         *)
(***************************************************************************)
\* handler h, a goroutine started by go ui.handleCommand(cmd), takes a step
HandlerMoves(h) == hnd[h].pc \notin {"idle", "done"} /\ hnd'[h].pc # hnd[h].pc

\* C18: only the event loop writes ui.ChatRoom: no step of a
\* handleCommand goroutine changes it.
C18_OnlyLoopWritesChatRoom ==
    [][active' # active => ~(\E h \in HandlerIds : HandlerMoves(h))]_vars

(***************************************************************************)
(* Properties of main (SpecMain)                                           *)
(***************************************************************************)
\* C19: main starts the announce strategy only when "announce" is
\* selected explicitly; with the flag absent or unrecognised it starts the
\* advertise strategy.
C19_DefaultIsAdvertise ==
    discovery.used # "none" =>
       ((discovery.used = "AnnounceConnect") <=> (discovery.flag = "announce"))

(***************************************************************************)
(* Properties of the bootstrap counters (SpecBoot)                         *)
(***************************************************************************)
\* every g.Go goroutine has returned
AllAttemptsDone == bootPc # "bootstrap" /\ \A i \in 1..bootN : bpc[i] = "done"

\* C20: once all N connection attempts have completed, totalBootPeers is N
\* and connectedBootPeers is the number of attempts whose Connect
\* succeeded, under every interleaving of the goroutines.
C20_CountersExact ==
    AllAttemptsDone =>
       /\ totalBootPeers = bootN
       /\ connectedBootPeers = BootSucceeded

(***************************************************************************)
(* Properties of ReadSub's error paths (SpecRead)                          *)
(***************************************************************************)
\* C21: when subscription.Next returns an error because the stream ended,
\* ReadSub closes Incomming, for the first and only time, has one "suberr"
\* log taken from Logs, and returns: it never reads the subscription or
\* closes the channel again.
C21_StreamEndClosesOnce ==
    [][\A s \in 1..sessN :
          /\ (rs[s] = "next" /\ rs'[s] = "logClosed") =>
                /\ inClosed[s] = 0
                /\ inClosed'[s] = 1
                /\ UNCHANGED <<logsSeen, subQ, delivered>>
          /\ (rs[s] = "logClosed" /\ rs'[s] # "logClosed") =>
                /\ rs'[s] = "done"
                /\ logsSeen' = [logsSeen EXCEPT !["suberr"] = @ + 1]
                /\ UNCHANGED <<inClosed, subQ, delivered>>
          /\ rs[s] = "done" =>
                /\ rs'[s] = "done"
                /\ inClosed'[s] = inClosed[s]
                /\ subQ'[s] = subQ[s]
          /\ inClosed'[s] <= 1]_vars

\* the stream of the room ended, the channel was closed and the log taken
C21_Witness ==
    /\ subEnded[1]
    /\ ~ctxDone[1]
    /\ rs[1] = "done"
    /\ inClosed[1] = 1
    /\ logsSeen["suberr"] = 1
    /\ Len(delivered[1]) > 0

(***************************************************************************)
(* Properties of PubMessages' error path (SpecWrite)                       *)
(***************************************************************************)
\* C22: a failed Publish does not end the publisher and does not keep it
\* from taking the texts submitted afterwards: PubMessages never returns,
\* and a text the event loop is handing to Outgoing never waits for a
\* publisher that is itself waiting for the loop to take its "puberr" log.
C22_PublishFailureNotFatal ==
    \A s \in 1..sessN :
       /\ pm[s] # "done"
       /\ (uiPc = "sendOut" /\ uiSel = s) => pm[s] # "logPuberr"

\* C23: a message of another peer whose payload json.Unmarshal rejects has
\* one "suberr" log taken, is never sent to Incomming, and does not stop
\* ReadSub, which goes back to reading the subscription; what the event
\* loop takes from a send of ReadSub is the message ReadSub decoded.
C23_UndecodableIsSkipped ==
    [][\A s \in 1..sessN :
          /\ (/\ rs[s] = "next"
              /\ subQ[s] # <<>>
              /\ subQ'[s] = Tail(subQ[s])
              /\ ~Head(subQ[s]).Data.valid
              /\ ~IsFromSelf(Head(subQ[s]), sess[s].selfID)) =>
                /\ rs'[s] = "logUnmarshal"
                /\ rsMsg'[s] = NoInMessage
                /\ UNCHANGED <<delivered, logsSeen, inClosed>>
          /\ (rs[s] = "logUnmarshal" /\ rs'[s] # "logUnmarshal") =>
                /\ rs'[s] = "next"
                /\ logsSeen' = [logsSeen EXCEPT !["suberr"] = @ + 1]
                /\ UNCHANGED <<delivered, subQ, inClosed, rsMsg>>
          /\ delivered'[s] # delivered[s] =>
                /\ rs[s] = "sendIncomming"
                /\ delivered'[s] = Append(delivered[s], rsMsg[s])]_vars

\* of two messages the first was rejected and reported, the second was
\* decoded and taken by the loop
C23_Witness ==
    /\ netN = 2
    /\ ~subEnded[1]
    /\ logsSeen["suberr"] = 1
    /\ Len(delivered[1]) = 1
    /\ delivered[1][1].id = 2
    /\ rs[1] = "next"

(***************************************************************************)
(* Properties of the local echo (SpecWrite)                                *)
(***************************************************************************)
\* C24: the echo of a text does not wait for a Publish call: the event
\* loop, which echoes once its send on Outgoing is taken, is never in that
\* send while the publisher of the session is building or publishing an
\* earlier text.
C24_EchoNeverWaitsForPublish ==
    uiPc = "sendOut" => pm[uiSel] \notin {"build", "publish"}

(***************************************************************************)
(* Termination of the event loop (SpecQuit)                                *)
(***************************************************************************)
\* C25: once the context of ui.ChatRoom is cancelled the event loop
\* returns, whatever it was doing: it is never left in the send of a text
\* on Outgoing after the publisher, the only receiver, has returned.
C25_LoopTerminatesOnCancel ==
    ~(/\ ctxDone[active]
      /\ uiPc = "sendOut"
      /\ pm[uiSel] = "done")

(***************************************************************************)
(* The event loop during a room switch (SpecSwitch)                        *)
(***************************************************************************)
\* handler h of a /room <name> is between its dispatch and its Leave(): it
\* reports the switch, captures ui.ChatRoom, joins, assigns ui.ChatRoom or
\* sleeps
InSwitch(h) ==
    /\ hnd[h].cmdtype = "/room"
    /\ hnd[h].pc \in {"start", "logRoomchange", "capture", "join", "swap", "sleep"}

\* C26: while a /room switch is under way the event loop does not wait for
\* it: the loop is at its select, or hands a text to Outgoing, and the
\* session whose channels it uses has not been cancelled.
C26_LoopNotBlockedBySwitch ==
    \A h \in HandlerIds :
       InSwitch(h) =>
          /\ uiPc \in {"select", "sendOut"}
          /\ ~ctxDone[uiSel]
          /\ uiPc = "sendOut" => pm[uiSel] # "done"

\* during the grace period of a switch the loop has taken the handler's
\* log, a message of the new room and a text that the new room published
C26_Witness ==
    /\ hnd[1].pc = "sleep"
    /\ active = 2
    /\ logsSeen["roomchange"] = 1
    /\ Len(delivered[2]) > 0
    /\ Len(published[2]) > 0
    /\ Len(echoed) > 0
    /\ uiPc = "select"

(***************************************************************************)
(* Properties of the discovery strategies (SpecMain)                       *)
(***************************************************************************)
\* the positions of a call in the calls a strategy has made
CallAt(name) == {i \in 1..Len(discovery.calls) : discovery.calls[i] = name}

\* C27: when Advertise or Provide fails the strategy aborts: no find call
\* is made and the connector is not started. Otherwise FindPeers comes
\* after a successful Advertise, FindProvidersAsync after a successful
\* Provide, and handlePeerDiscovery is started after a successful find call.
C27_FirstCallFailureIsFatal ==
    /\ discovery.failed \in {"Advertise", "Provide"} =>
          /\ discovery.pc = "fatal"
          /\ discovery.calls = <<discovery.failed>>
    /\ \A i \in CallAt("FindPeers") :
          /\ discovery.failed # "Advertise"
          /\ \E j \in CallAt("Advertise") : j < i
    /\ \A i \in CallAt("FindProvidersAsync") :
          /\ discovery.failed # "Provide"
          /\ \E j \in CallAt("Provide") : j < i
    /\ \A i \in CallAt("handlePeerDiscovery") :
          /\ discovery.failed = ""
          /\ \E j \in CallAt("FindPeers") \cup CallAt("FindProvidersAsync") : j < i

\* with -discovery advertise the Advertise call failed and main has aborted
C27_Witness ==
    /\ discovery.flag = "advertise"
    /\ discovery.failed = "Advertise"
    /\ discovery.pc = "fatal"
    /\ bootPc = "returned"

(***************************************************************************)
(* The event loop and Leave() (Spec)                                       *)
(***************************************************************************)
\* C28: a room switch does not end the event loop: when eventHandler has
\* returned through `case <-ui.ctx.Done()`, the context it observed is not
\* one that a /room handler cancelled with Leave().
C28_SwitchNeverEndsLoop ==
    uiPc = "done" => leftBy[uiSel] = {}

(***************************************************************************)
(* The event loop's send on Outgoing (SpecOutbound)                        *)
(***************************************************************************)
\* C29: the event loop is never blocked for good in `ui.Outgoing <- msg`:
\* it never waits to hand a text to a session whose publisher is in its
\* own send of a "puberr" to the loop, or has returned after cancellation.
C29_OutgoingSendNeverStuck ==
    uiPc = "sendOut" => pm[uiSel] \notin {"logPuberr", "done"}

(***************************************************************************)
(* What the event loop renders as inbound (SpecRead)                       *)
(***************************************************************************)
\* C30: the event loop renders as an inbound message only what ReadSub
\* decoded and sent on Incomming: it never renders the zero chatMessage
\* that a receive from the closed channel yields, so once Incomming is
\* closed it renders no inbound message at all.
C30_RendersOnlyPushedMessages ==
    ~zeroRendered

(***************************************************************************)
(* Renaming during a room switch (Spec)                                    *)
(***************************************************************************)
\* handler h is the last /user <name> the loop has dispatched
LastRename(h) ==
    /\ hnd[h].cmdtype = "/user"
    /\ hnd[h].cmdarg # ""
    /\ \A k \in (h + 1)..hN : hnd[k].cmdtype # "/user"

\* C31: once the handler of a /user <name> has finished and no later
\* /user was issued, the Username of ui.ChatRoom is <name>, also when a
\* /room switch runs at the same time.
C31_RenameSurvivesSwitch ==
    \A h \in 1..hN :
       (LastRename(h) /\ hnd[h].pc = "done") => sess[active].Username = hnd[h].cmdarg

(***************************************************************************)
(* Closing of the channels (SpecClose)                                     *)
(***************************************************************************)
\* C32: across room switches, Leave() and the end of a stream, Incomming
\* of a session is closed at most once, by ReadSub on its way out, and
\* ReadSub is never in a send on it afterwards. (Outgoing and Logs have no
\* close in the program.)
C32_ClosedOnceNoSendAfter ==
    \A s \in 1..sessN :
       /\ inClosed[s] <= 1
       /\ inClosed[s] = 1 => rs[s] \in {"logClosed", "done"}
       /\ rs[s] = "sendIncomming" => inClosed[s] = 0

\* the old room was closed after Leave(), the new one by the end of its
\* stream, and a message had been taken before
C32_Witness ==
    /\ leftBy[1] # {}
    /\ inClosed[1] = 1
    /\ leftBy[2] = {}
    /\ subEnded[2]
    /\ inClosed[2] = 1
    /\ \E s \in 1..sessN : Len(delivered[s]) > 0

(***************************************************************************)
(* The session given to Leave() (SpecRooms)                                *)
(***************************************************************************)
\* C33: whenever a /room handler calls Leave(), the session it passes is
\* not ui.ChatRoom, however many /room handlers overlap.
C33_LeaveTargetNotActive ==
    [][\A s \in SessIds : leftBy'[s] # leftBy[s] => (s # active /\ s # active')]_vars

\* two handlers that captured the same session have both called Leave()
C33_Witness ==
    /\ hnd[1].pc = "done"
    /\ hnd[2].pc = "done"
    /\ hnd[1].old = 1
    /\ hnd[2].old = 1
    /\ leftBy[1] = {1, 2}
    /\ active \in {2, 3}

====
